---- MODULE Spec2Model ----
(***************************************************************************)
(* Model of backend/serial/scalar_mul/vartime_double_base.rs:              *)
(*   mul                        single-shot a*A + b*B                      *)
(*   deserialize_r_from_backup  15-limb array -> ProjectivePoint           *)
(*   mul_kobold                 resumable stepper with a checkpoint sink   *)
(*                                                                         *)
(* The field, the curve models, the NAF recoder and the lookup table live  *)
(* in other files of the crate.  They are modelled here on a small twisted *)
(* Edwards curve -x^2 + y^2 = 1 + d x^2 y^2 over GF(2^5 - 3), with the     *)
(* crate's formulas and a 5-limb radix-2 representation standing in for    *)
(* the radix-2^51 one.                                                     *)
(***************************************************************************)
EXTENDS Integers, Sequences, FiniteSets, TLC

(***************************************************************************)
(* Bounds of the explored inputs.                                          *)
(***************************************************************************)
\* scalars a: 0 and m * 2^k, m among the first MaxMultA multipliers, k in 0 .. MaxShiftA
MaxMultA == 2
MaxShiftA == 125
\* scalars b: 0 and 2^(254 * k), k in 0 .. MaxShiftB
MaxShiftB == 1
\* points A: the first MaxPointsA of the listed curve points
MaxPointsA == 2
\* cursors above 255 a caller may hand in: 256 .. MaxBadCursor
MaxBadCursor == 257
\* limb values of the array the account holds on a fresh start: 0 .. MaxGarbage
MaxGarbage == 0
\* the budget comparison explores scalars with no bit above MaxBudgetBit
MaxBudgetBit == 40
\* the loop of mul is evaluated in blocks of MaxDepth passes
MaxDepth == 32
\* the fresh-start runs explore scalars with no bit above MaxFreshBit and
\* arrays of limb value 0 .. MaxFreshGarbage
MaxFreshBit == 40
MaxFreshGarbage == 2
\* single loop steps are explored at the indices 0 .. MaxRoundIndex
MaxRoundIndex == 5
\* the comparison of checkpoints with mul explores scalars a with no bit above MaxRefineBit
MaxRefineBit == 70

(***************************************************************************)
(* u64::field::FieldElement51 (5 limbs), on the small field.               *)
(***************************************************************************)
P == 2^5 - 3

EDWARDS_D == 27

\* the limbs of the reduced value v, least significant first
FE_LIMBS ==
    [v \in 0 .. P - 1 |->
        << v % 2, (v \div 2) % 2, (v \div 4) % 2, (v \div 8) % 2, (v \div 16) % 2 >>]

fe(v) == FE_LIMBS[v]

fe_val(f) == (f[1] + 2 * f[2] + 4 * f[3] + 8 * f[4] + 16 * f[5]) % P

FE_ZERO == fe(0)

FE_ONE == fe(1)

\* the reduced representations
FE_SET == { FE_LIMBS[v] : v \in 0 .. P - 1 }

\* the reduced representation of the value of f
canon(f) == IF f \in FE_SET THEN f ELSE fe(fe_val(f))

\* the operation tables of the field, on reduced representations
FE_ADD == [f \in FE_SET |-> [g \in FE_SET |-> fe((fe_val(f) + fe_val(g)) % P)]]

FE_SUB == [f \in FE_SET |-> [g \in FE_SET |-> fe((fe_val(f) + P - fe_val(g)) % P)]]

FE_MUL == [f \in FE_SET |-> [g \in FE_SET |-> fe((fe_val(f) * fe_val(g)) % P)]]

FE_SQ2 == [f \in FE_SET |-> fe((2 * fe_val(f) * fe_val(f)) % P)]

fe_add(f, g) == FE_ADD[canon(f)][canon(g)]

fe_sub(f, g) == FE_SUB[canon(f)][canon(g)]

fe_mul(f, g) == FE_MUL[canon(f)][canon(g)]

fe_square(f) == fe_mul(f, f)

fe_square2(f) == FE_SQ2[canon(f)]

(***************************************************************************)
(* curve_models: ProjectivePoint, CompletedPoint, ProjectiveNielsPoint,    *)
(* and edwards::EdwardsPoint.                                              *)
(***************************************************************************)
ProjectivePoint_identity == [X |-> FE_ZERO, Y |-> FE_ONE, Z |-> FE_ONE]

EdwardsPoint_default == [X |-> FE_ZERO, Y |-> FE_ONE, Z |-> FE_ONE, T |-> FE_ZERO]

\* ProjectivePoint::double -> CompletedPoint
double(p) ==
    LET XX == fe_square(p.X)
        YY == fe_square(p.Y)
        ZZ2 == fe_square2(p.Z)
        X_plus_Y == fe_add(p.X, p.Y)
        X_plus_Y_sq == fe_square(X_plus_Y)
        YY_plus_XX == fe_add(YY, XX)
        YY_minus_XX == fe_sub(YY, XX)
    IN [X |-> fe_sub(X_plus_Y_sq, YY_plus_XX),
        Y |-> YY_plus_XX,
        Z |-> YY_minus_XX,
        T |-> fe_sub(ZZ2, YY_minus_XX)]

\* CompletedPoint::as_projective
as_projective(c) ==
    [X |-> fe_mul(c.X, c.T), Y |-> fe_mul(c.Y, c.Z), Z |-> fe_mul(c.Z, c.T)]

\* CompletedPoint::as_extended
as_extended(c) ==
    [X |-> fe_mul(c.X, c.T), Y |-> fe_mul(c.Y, c.Z),
     Z |-> fe_mul(c.Z, c.T), T |-> fe_mul(c.X, c.Y)]

\* ProjectivePoint::as_extended
projective_as_extended(p) ==
    [X |-> fe_mul(p.X, p.Z), Y |-> fe_mul(p.Y, p.Z),
     Z |-> fe_square(p.Z), T |-> fe_mul(p.X, p.Y)]

\* EdwardsPoint::as_projective
edwards_as_projective(e) == [X |-> e.X, Y |-> e.Y, Z |-> e.Z]

\* EdwardsPoint::as_projective_niels
as_projective_niels(e) ==
    [Y_plus_X |-> fe_add(e.Y, e.X),
     Y_minus_X |-> fe_sub(e.Y, e.X),
     Z |-> e.Z,
     T2d |-> fe_mul(e.T, fe((2 * EDWARDS_D) % P))]

\* &EdwardsPoint + &ProjectiveNielsPoint -> CompletedPoint
add_niels(e, n) ==
    LET Y_plus_X == fe_add(e.Y, e.X)
        Y_minus_X == fe_sub(e.Y, e.X)
        PP == fe_mul(Y_plus_X, n.Y_plus_X)
        MM == fe_mul(Y_minus_X, n.Y_minus_X)
        TT2d == fe_mul(e.T, n.T2d)
        ZZ == fe_mul(e.Z, n.Z)
        ZZ2 == fe_add(ZZ, ZZ)
    IN [X |-> fe_sub(PP, MM), Y |-> fe_add(PP, MM),
        Z |-> fe_add(ZZ2, TT2d), T |-> fe_sub(ZZ2, TT2d)]

\* &EdwardsPoint - &ProjectiveNielsPoint -> CompletedPoint
sub_niels(e, n) ==
    LET Y_plus_X == fe_add(e.Y, e.X)
        Y_minus_X == fe_sub(e.Y, e.X)
        PM == fe_mul(Y_plus_X, n.Y_minus_X)
        MP == fe_mul(Y_minus_X, n.Y_plus_X)
        TT2d == fe_mul(e.T, n.T2d)
        ZZ == fe_mul(e.Z, n.Z)
        ZZ2 == fe_add(ZZ, ZZ)
    IN [X |-> fe_sub(PM, MP), Y |-> fe_add(PM, MP),
        Z |-> fe_sub(ZZ2, TT2d), T |-> fe_add(ZZ2, TT2d)]

\* EdwardsPoint::double
edwards_double(e) == as_extended(double(edwards_as_projective(e)))

\* EdwardsPoint equality (ct_eq): the same point of the curve
edwards_eq(e1, e2) ==
    /\ fe_val(fe_mul(e1.X, e2.Z)) = fe_val(fe_mul(e2.X, e1.Z))
    /\ fe_val(fe_mul(e1.Y, e2.Z)) = fe_val(fe_mul(e2.Y, e1.Z))

\* the affine point (x, y) as an EdwardsPoint
affine(x, y) == [X |-> fe(x), Y |-> fe(y), Z |-> FE_ONE, T |-> fe((x * y) % P)]

\* constants::ED25519_BASEPOINT_POINT: a generator of the curve group
ED25519_BASEPOINT_POINT == affine(1, 7)

\* NafLookupTable5::<ProjectiveNielsPoint>::from: [A, 3A, 5A, ..., 15A]
RECURSIVE naf_table_fill(_, _, _)
naf_table_fill(Ai, A2, n) ==
    IF n = 0 THEN Ai
    ELSE naf_table_fill(
            Append(Ai, as_projective_niels(as_extended(add_niels(A2, Ai[Len(Ai)])))),
            A2, n - 1)

NafLookupTable5_from(A) ==
    naf_table_fill(<< as_projective_niels(A) >>, edwards_double(A), 7)

\* NafLookupTable5::select(x) = table[x / 2]
select(table, x) == table[(x \div 2) + 1]

(***************************************************************************)
(* scalar::Scalar, as the set of its one-bits, and non_adjacent_form.      *)
(***************************************************************************)
NAF_LEN == 256

RECURSIVE bit_buf(_, _, _)
bit_buf(s, pos, w) ==
    IF w = 0 THEN 0
    ELSE (IF pos \in s THEN 1 ELSE 0) + 2 * bit_buf(s, pos + 1, w - 1)

\* the positions from pos on where the window is odd (an even window only
\* moves pos on by one and keeps the carry)
odd_positions(s, pos, carry) ==
    { q \in pos .. NAF_LEN - 1 : (carry + (IF q \in s THEN 1 ELSE 0)) % 2 = 1 }

RECURSIVE naf_fill(_, _, _, _, _)
naf_fill(s, w, pos, carry, naf) ==
    LET odd == odd_positions(s, pos, carry)
    IN IF odd = {} THEN naf
       ELSE LET q == CHOOSE q \in odd : \A q2 \in odd : q <= q2
                width == 2^w
                window == carry + bit_buf(s, q, w)
            IN IF window < width \div 2
               THEN naf_fill(s, w, q + w, 0, [naf EXCEPT ![q] = window])
               ELSE naf_fill(s, w, q + w, 1, [naf EXCEPT ![q] = window - width])

non_adjacent_form(s, w) == naf_fill(s, w, 0, 0, [k \in 0 .. NAF_LEN - 1 |-> 0])

(***************************************************************************)
(* vartime_double_base.rs                                                  *)
(***************************************************************************)
\* the cursor value meaning "not started" (if i_bu == 300)
NOT_STARTED == 300

\* the literal compared with j in the loop of mul_kobold (if j == 30)
STEP_BUDGET == 30

\* mutant: the scan is left out and i keeps its initial value 255
find_starting_index_noscan(a_naf, b_naf) == NAF_LEN - 1

\* "Find starting index": for j in (0..256).rev() { i = j; if nonzero { break } }
\* the highest index with a nonzero digit, or 0 when the scan runs out
find_starting_index(a_naf, b_naf) ==
    LET nonzero == { j \in 0 .. NAF_LEN - 1 : a_naf[j] /= 0 \/ b_naf[j] /= 0 }
    IN IF nonzero = {} THEN 0
       ELSE CHOOSE j \in nonzero : \A k \in nonzero : k <= j

\* mutant: the Equal arm is missing, a zero digit takes the Greater arm
apply_digit_no_equal_arm(t, digit, table) ==
    IF digit >= 0 THEN add_niels(as_extended(t), select(table, digit))
    ELSE sub_niels(as_extended(t), select(table, -digit))

\* the match on a digit: add, subtract or leave t as it is
apply_digit(t, digit, table) ==
    IF digit > 0 THEN add_niels(as_extended(t), select(table, digit))
    ELSE IF digit < 0 THEN sub_niels(as_extended(t), select(table, -digit))
    ELSE t

\* one pass of the loop body up to r = t.as_projective()
loop_round(r, i, a_naf, b_naf, table_A, table_B) ==
    as_projective(apply_digit(apply_digit(double(r), a_naf[i], table_A), b_naf[i], table_B))

\* at most MaxDepth passes of the loop of mul, from the state st (r and i)
RECURSIVE mul_rounds(_, _, _, _, _, _)
mul_rounds(st, n, a_naf, b_naf, table_A, table_B) ==
    LET r2 == loop_round(st.r, st.i, a_naf, b_naf, table_A, table_B)
    IN IF st.i = 0 THEN [r |-> r2, i |-> 0, done |-> TRUE]
       ELSE IF n = 1 THEN [r |-> r2, i |-> st.i - 1, done |-> FALSE]
       ELSE mul_rounds([r |-> r2, i |-> st.i - 1], n - 1, a_naf, b_naf, table_A, table_B)

\* the loop of mul: runs down to index 0 (evaluated MaxDepth passes at a time)
RECURSIVE mul_loop(_, _, _, _, _)
mul_loop(st, a_naf, b_naf, table_A, table_B) ==
    LET s2 == mul_rounds(st, MaxDepth, a_naf, b_naf, table_A, table_B)
    IN IF s2.done THEN s2.r
       ELSE mul_loop([r |-> s2.r, i |-> s2.i], a_naf, b_naf, table_A, table_B)

\* the loop of mul run from st until it is about to process index stop
RECURSIVE mul_down_to(_, _, _, _, _, _)
mul_down_to(st, stop, a_naf, b_naf, table_A, table_B) ==
    IF st.i <= stop THEN st.r
    ELSE LET n == IF st.i - stop < MaxDepth THEN st.i - stop ELSE MaxDepth
             s2 == mul_rounds(st, n, a_naf, b_naf, table_A, table_B)
         IN mul_down_to([r |-> s2.r, i |-> s2.i], stop, a_naf, b_naf, table_A, table_B)

\* the r of mul(a, A, b) at the moment its loop is about to process index c
mul_accumulator_at(a, A, b, c) ==
    LET a_naf == non_adjacent_form(a, 5)
        b_naf == non_adjacent_form(b, 5)
        i == find_starting_index(a_naf, b_naf)
        table_A == NafLookupTable5_from(A)
        table_B == NafLookupTable5_from(ED25519_BASEPOINT_POINT)
    IN mul_down_to([r |-> ProjectivePoint_identity, i |-> i], c,
                   a_naf, b_naf, table_A, table_B)

mul(a, A, b) ==
    LET a_naf == non_adjacent_form(a, 5)
        b_naf == non_adjacent_form(b, 5)
        i == find_starting_index(a_naf, b_naf)
        table_A == NafLookupTable5_from(A)
        table_B == NafLookupTable5_from(ED25519_BASEPOINT_POINT)
    IN projective_as_extended(
           mul_loop([r |-> ProjectivePoint_identity, i |-> i],
                    a_naf, b_naf, table_A, table_B))

\* mutant: the Y limbs are copied from the slice [0..5] again
deserialize_r_from_backup_yslice(projective_point_bu) ==
    [X |-> SubSeq(projective_point_bu, 1, 5),
     Y |-> SubSeq(projective_point_bu, 1, 5),
     Z |-> SubSeq(projective_point_bu, 11, 15)]

\* [u64; 15] -> ProjectivePoint: slices [0..5], [5..10], [10..15]
deserialize_r_from_backup(projective_point_bu) ==
    [X |-> SubSeq(projective_point_bu, 1, 5),
     Y |-> SubSeq(projective_point_bu, 6, 10),
     Z |-> SubSeq(projective_point_bu, 11, 15)]

\* mutant: the Z limbs are put before the Y limbs
projective_point_progress_xzy(r) == r.X \o r.Z \o r.Y

\* the "save progress" array: [x_arr, y_arr, z_arr].concat()
projective_point_progress(r) == r.X \o r.Y \o r.Z

\* mutant: when the budget runs out, i is left at the index just processed
RECURSIVE kobold_loop_no_decrement(_, _, _, _, _, _)
kobold_loop_no_decrement(st, a_naf, b_naf, table_A, table_B, budget) ==
    LET r2 == loop_round(st.r, st.i, a_naf, b_naf, table_A, table_B)
    IN IF st.i = 0
       THEN [r |-> r2, i |-> st.i, j |-> st.j, exit |-> "index0", last |-> st.i]
       ELSE IF st.j = budget
            THEN [r |-> r2, i |-> st.i, j |-> st.j, exit |-> "budget", last |-> st.i]
            ELSE kobold_loop_no_decrement([r |-> r2, i |-> st.i - 1, j |-> st.j + 1],
                                          a_naf, b_naf, table_A, table_B, budget)

\* mutant: the literal compared with j has lost its last digit (3 for 30)
RECURSIVE kobold_loop_short_budget(_, _, _, _, _, _)
kobold_loop_short_budget(st, a_naf, b_naf, table_A, table_B, budget) ==
    LET r2 == loop_round(st.r, st.i, a_naf, b_naf, table_A, table_B)
    IN IF st.i = 0
       THEN [r |-> r2, i |-> st.i, j |-> st.j, exit |-> "index0", last |-> st.i]
       ELSE IF st.j = budget \div 10
            THEN [r |-> r2, i |-> st.i - 1, j |-> st.j, exit |-> "budget", last |-> st.i]
            ELSE kobold_loop_short_budget([r |-> r2, i |-> st.i - 1, j |-> st.j + 1],
                                          a_naf, b_naf, table_A, table_B, budget)

\* the loop of mul_kobold; st holds the loop's r, i and j, and the result
\* records how the loop was left
RECURSIVE kobold_loop(_, _, _, _, _, _)
kobold_loop(st, a_naf, b_naf, table_A, table_B, budget) ==
    LET r2 == loop_round(st.r, st.i, a_naf, b_naf, table_A, table_B)
    IN IF st.i = 0
       THEN [r |-> r2, i |-> st.i, j |-> st.j, exit |-> "index0", last |-> st.i]
       ELSE IF st.j = budget
            THEN [r |-> r2, i |-> st.i - 1, j |-> st.j, exit |-> "budget", last |-> st.i]
            ELSE kobold_loop([r |-> r2, i |-> st.i - 1, j |-> st.j + 1],
                             a_naf, b_naf, table_A, table_B, budget)

\* mutant: the progress is handed to the sink before the test on i
after_loop_always_sink(l, first) ==
    [outcome |-> "returned", status |-> IF l.i = 0 THEN 2 ELSE 1,
     point |-> IF l.i = 0 THEN projective_as_extended(l.r) ELSE EdwardsPoint_default,
     sink |-> << [i |-> l.i, arr |-> projective_point_progress(l.r)] >>,
     rounds |-> l.j + 1, doublings |-> l.j + 1,
     exit |-> l.exit, first |-> first, last |-> l.last, r |-> l.r]

\* mutant: the branch after the loop tests whether the budget was used up
\* (j) instead of the index (i)
after_loop_test_j(l, first) ==
    IF l.j < STEP_BUDGET
    THEN [outcome |-> "returned", status |-> 2, point |-> projective_as_extended(l.r),
          sink |-> << >>, rounds |-> l.j + 1, doublings |-> l.j + 1,
          exit |-> l.exit, first |-> first, last |-> l.last, r |-> l.r]
    ELSE [outcome |-> "returned", status |-> 1, point |-> EdwardsPoint_default,
          sink |-> << [i |-> l.i, arr |-> projective_point_progress(l.r)] >>,
          rounds |-> l.j + 1, doublings |-> l.j + 1,
          exit |-> l.exit, first |-> first, last |-> l.last, r |-> l.r]

\* the code after the loop: return Done, or call the sink and return Continue
after_loop(l, first) ==
    IF l.i = 0
    THEN [outcome |-> "returned", status |-> 2, point |-> projective_as_extended(l.r),
          sink |-> << >>, rounds |-> l.j + 1, doublings |-> l.j + 1,
          exit |-> l.exit, first |-> first, last |-> l.last, r |-> l.r]
    ELSE [outcome |-> "returned", status |-> 1, point |-> EdwardsPoint_default,
          sink |-> << [i |-> l.i, arr |-> projective_point_progress(l.r)] >>,
          rounds |-> l.j + 1, doublings |-> l.j + 1,
          exit |-> l.exit, first |-> first, last |-> l.last, r |-> l.r]

\* a_naf[i] with i >= 256: r.double() was computed, then the index panics
index_panic(i, r) ==
    [outcome |-> "panic", status |-> 0, point |-> EdwardsPoint_default,
     sink |-> << >>, rounds |-> 0, doublings |-> 1,
     exit |-> "panic", first |-> i, last |-> i, r |-> r]

\* mutant: the accumulator is loaded from the array on a fresh start too
mul_kobold_always_load(a, A, b, i_bu, projective_point_bu, budget) ==
    LET a_naf == non_adjacent_form(a, 5)
        b_naf == non_adjacent_form(b, 5)
        i == IF i_bu = NOT_STARTED
             THEN find_starting_index(a_naf, b_naf)
             ELSE i_bu
        r == deserialize_r_from_backup(projective_point_bu)
        table_A == NafLookupTable5_from(A)
        table_B == NafLookupTable5_from(ED25519_BASEPOINT_POINT)
    IN IF i >= NAF_LEN
       THEN index_panic(i, r)
       ELSE after_loop(kobold_loop([r |-> r, i |-> i, j |-> 0],
                                   a_naf, b_naf, table_A, table_B, budget), i)

\* mutant: the sink is handed the cursor the invocation was given (i_bu),
\* not the cursor it stopped at
mul_kobold_sink_i_bu(a, A, b, i_bu, projective_point_bu, budget) ==
    LET a_naf == non_adjacent_form(a, 5)
        b_naf == non_adjacent_form(b, 5)
        i == IF i_bu = NOT_STARTED
             THEN find_starting_index(a_naf, b_naf)
             ELSE i_bu
        r == IF i_bu = NOT_STARTED
             THEN ProjectivePoint_identity
             ELSE deserialize_r_from_backup(projective_point_bu)
        table_A == NafLookupTable5_from(A)
        table_B == NafLookupTable5_from(ED25519_BASEPOINT_POINT)
        res == after_loop(kobold_loop([r |-> r, i |-> i, j |-> 0],
                                      a_naf, b_naf, table_A, table_B, budget), i)
    IN IF i >= NAF_LEN
       THEN index_panic(i, r)
       ELSE [res EXCEPT !.sink = [k \in 1 .. Len(res.sink) |->
                                     [i |-> i_bu, arr |-> res.sink[k].arr]]]

mul_kobold(a, A, b, i_bu, projective_point_bu, budget) ==
    LET a_naf == non_adjacent_form(a, 5)
        b_naf == non_adjacent_form(b, 5)
        i == IF i_bu = NOT_STARTED
             THEN find_starting_index(a_naf, b_naf)
             ELSE i_bu
        r == IF i_bu = NOT_STARTED
             THEN ProjectivePoint_identity
             ELSE deserialize_r_from_backup(projective_point_bu)
        table_A == NafLookupTable5_from(A)
        table_B == NafLookupTable5_from(ED25519_BASEPOINT_POINT)
    IN IF i >= NAF_LEN
       THEN index_panic(i, r)
       ELSE after_loop(kobold_loop([r |-> r, i |-> i, j |-> 0],
                                   a_naf, b_naf, table_A, table_B, budget), i)

(***************************************************************************)
(* The inputs explored.                                                    *)
(***************************************************************************)
Scalar_ZERO == {}

Scalar_ONE == {0}

\* the scalar m * 2^k as the set of its one-bits
ScalarOf(m, k) == { k + n : n \in { n \in 0 .. 7 : (m \div 2^n) % 2 = 1 } }

\* odd multipliers: 31 recodes to the digits -1 (at k) and 1 (at k + 5)
Multipliers == << 1, 31, 3, 17 >>

\* the highest bit of a scalar the recoder accepts (scalars are below 2^255)
TOP_BIT == 254

ScalarsA ==
    { Scalar_ZERO } \cup
    { ScalarOf(Multipliers[n], k) :
        n \in 1 .. (IF MaxMultA < Len(Multipliers) THEN MaxMultA ELSE Len(Multipliers)),
        k \in 0 .. MaxShiftA }

ScalarsB ==
    { Scalar_ZERO } \cup
    { ScalarOf(1, TOP_BIT * k) : k \in { k \in 0 .. MaxShiftB : TOP_BIT * k <= TOP_BIT } }

\* affine curve points: 9B, the identity, B, 4B
PointList == << << 3, 12 >>, << 0, 1 >>, << 1, 7 >>, << 2, 6 >> >>

PointsA ==
    { affine(PointList[n][1], PointList[n][2]) :
        n \in 1 .. (IF MaxPointsA < Len(PointList) THEN MaxPointsA ELSE Len(PointList)) }

BadCursors == (NAF_LEN .. MaxBadCursor) \ {NOT_STARTED}

\* what the account holds before the first checkpoint is written
InitialArrays == { [k \in 1 .. 15 |-> g] : g \in 0 .. MaxGarbage }

(***************************************************************************)
(* The run: the caller invokes mul_kobold with the account's checkpoint,   *)
(* the sink writes the next checkpoint to the account.                     *)
(***************************************************************************)
VARIABLES a, b, A, budget, i_bu, projective_point_bu, ret, calls

vars == << a, b, A, budget, i_bu, projective_point_bu, ret, calls >>

NoCall ==
    [outcome |-> "none", status |-> 0, point |-> EdwardsPoint_default,
     sink |-> << >>, rounds |-> 0, doublings |-> 0,
     exit |-> "none", first |-> 0, last |-> 0, r |-> ProjectivePoint_identity]

Init ==
    /\ a \in ScalarsA
    /\ b \in ScalarsB
    /\ A \in PointsA
    /\ budget = STEP_BUDGET
    /\ i_bu \in {NOT_STARTED} \cup BadCursors
    /\ projective_point_bu \in InitialArrays
    /\ ret = NoCall
    /\ calls = 0

\* update_kobold_account_handle(i, projective_point_progress)
update_kobold_account_handle(res) ==
    IF res.sink = << >>
    THEN UNCHANGED << i_bu, projective_point_bu >>
    ELSE /\ i_bu' = res.sink[Len(res.sink)].i
         /\ projective_point_bu' = res.sink[Len(res.sink)].arr

\* one invocation of mul_kobold
Invoke ==
    /\ ret.outcome \in {"none", "returned"}
    /\ ret.status /= 2
    /\ LET res == mul_kobold(a, A, b, i_bu, projective_point_bu, budget)
       IN /\ ret' = res
          /\ update_kobold_account_handle(res)
    /\ calls' = calls + 1
    /\ UNCHANGED << a, b, A, budget >>

Next == Invoke

Spec == Init /\ [][Next]_vars

\* the caller's side of Invoke: while the last status is not Done it calls
\* mul_kobold again.  Every Invoke step is a Resume step and Invoke is enabled
\* exactly when Resume is, mul_kobold being defined on every input.
Resume ==
    /\ ret.outcome \in {"none", "returned"}
    /\ ret.status /= 2
    /\ calls' = calls + 1

\* the caller keeps resuming: an enabled invocation is eventually made
SpecLive == Init /\ [][Next]_vars /\ WF_calls(Resume)

\* the budgets the literal 30 is replaced by in the budget comparison
Budgets == {1, 7, STEP_BUDGET, 1000}

InitBudget ==
    /\ a \in { s \in ScalarsA : \A bit \in s : bit <= MaxBudgetBit }
    /\ b \in { s \in ScalarsB : \A bit \in s : bit <= MaxBudgetBit }
    /\ A \in PointsA
    /\ budget \in Budgets
    /\ i_bu = NOT_STARTED
    /\ projective_point_bu \in InitialArrays
    /\ ret = NoCall
    /\ calls = 0

SpecBudget == InitBudget /\ [][Next]_vars

\* what the account may hold on a fresh start: constant arrays and the
\* stale checkpoint of another run
FreshArrays ==
    { [k \in 1 .. 15 |-> g] : g \in 0 .. MaxFreshGarbage } \cup
    { projective_point_progress(edwards_as_projective(ED25519_BASEPOINT_POINT)) }

InitFresh ==
    /\ a \in { s \in ScalarsA : \A bit \in s : bit <= MaxFreshBit }
    /\ b \in { s \in ScalarsB : \A bit \in s : bit <= MaxFreshBit }
    /\ A \in PointsA
    /\ budget = STEP_BUDGET
    /\ i_bu = NOT_STARTED
    /\ projective_point_bu \in FreshArrays
    /\ ret = NoCall
    /\ calls = 0

SpecFresh == InitFresh /\ [][Next]_vars

InitRefine ==
    /\ a \in { s \in ScalarsA : \A bit \in s : bit <= MaxRefineBit }
    /\ b \in ScalarsB
    /\ A \in PointsA
    /\ budget = STEP_BUDGET
    /\ i_bu = NOT_STARTED
    /\ projective_point_bu \in InitialArrays
    /\ ret = NoCall
    /\ calls = 0

SpecRefine == InitRefine /\ [][Next]_vars

(***************************************************************************)
(* One pass of the loop body on its own: i_bu holds the index i,           *)
(* projective_point_bu the limbs of r before the pass, ret.r the r after.  *)
(***************************************************************************)
\* scalars with the digits 1, -1, 3 and -15 at index 0 (and 1 at index 5)
RoundScalars == { Scalar_ZERO } \cup { ScalarOf(Multipliers[n], 0) : n \in 1 .. Len(Multipliers) }

\* accumulators: the identity, the listed points, and their doubles (Z /= 1)
RoundAccumulators ==
    { ProjectivePoint_identity } \cup
    { edwards_as_projective(affine(PointList[n][1], PointList[n][2])) :
        n \in 1 .. Len(PointList) } \cup
    { as_projective(double(edwards_as_projective(affine(PointList[n][1], PointList[n][2])))) :
        n \in 1 .. Len(PointList) }

InitRound ==
    /\ a \in RoundScalars
    /\ b \in RoundScalars
    /\ A \in PointsA
    /\ budget = STEP_BUDGET
    /\ i_bu \in 0 .. MaxRoundIndex
    /\ projective_point_bu \in { projective_point_progress(r) : r \in RoundAccumulators }
    /\ ret = NoCall
    /\ calls = 0

\* lines 152-166: t = r.double(), the two matches, r = t.as_projective()
LoopStep ==
    /\ ret.outcome = "none"
    /\ ret' = [NoCall EXCEPT
                  !.outcome = "round",
                  !.r = loop_round(deserialize_r_from_backup(projective_point_bu), i_bu,
                                   non_adjacent_form(a, 5), non_adjacent_form(b, 5),
                                   NafLookupTable5_from(A),
                                   NafLookupTable5_from(ED25519_BASEPOINT_POINT)),
                  !.rounds = 1, !.doublings = 1, !.first = i_bu, !.last = i_bu]
    /\ calls' = calls + 1
    /\ UNCHANGED << a, b, A, budget, i_bu, projective_point_bu >>

NextRound == LoopStep

SpecRound == InitRound /\ [][NextRound]_vars

\* EdwardsPoint negation
edwards_neg(e) ==
    [X |-> fe_sub(FE_ZERO, e.X), Y |-> e.Y, Z |-> e.Z, T |-> fe_sub(FE_ZERO, e.T)]

\* EdwardsPoint + EdwardsPoint
edwards_add(e1, e2) == as_extended(add_niels(e1, as_projective_niels(e2)))

\* e added st.n times to st.acc
RECURSIVE add_times(_, _)
add_times(st, e) ==
    IF st.n = 0 THEN st.acc
    ELSE add_times([acc |-> edwards_add(st.acc, e), n |-> st.n - 1], e)

\* the multiple m * e, m >= 0, by repeated addition
small_multiple(m, e) == add_times([acc |-> EdwardsPoint_default, n |-> m], e)

\* d * e for a signed digit d
signed_multiple(d, e) ==
    IF d >= 0 THEN small_multiple(d, e) ELSE small_multiple(-d, edwards_neg(e))

(***************************************************************************)
(* Properties.                                                             *)
(***************************************************************************)
\* the run was started with the not-started cursor and has made a call
FreshRun == calls >= 1 /\ ret.outcome = "returned"

\* C1: a run to completion (fresh start, resumed with the checkpoint handed
\* to the sink until status 2) returns the same point as mul(a, A, b).
C1_RunEqualsMul ==
    (FreshRun /\ ret.status = 2) => edwards_eq(ret.point, mul(a, A, b))

\* C2: with the budget literal set to 1, 7, 30 or 1000 the point returned
\* with status Done is the same; 1000 never exhausts, so every budget is
\* compared with the run under budget 1000.
C2_BudgetInvariance ==
    (FreshRun /\ ret.status = 2) =>
        edwards_eq(ret.point,
                   mul_kobold(a, A, b, NOT_STARTED, projective_point_bu, 1000).point)

\* C3: a = 0, b = 0 gives the identity, a = 1, b = 0 gives A, a = 0, b = 1
\* gives B; the first invocation returns Done and the sink is not called.
C3_IdentityCases ==
    FreshRun =>
        /\ (a = Scalar_ZERO /\ b = Scalar_ZERO) =>
               /\ calls = 1 /\ ret.status = 2 /\ ret.sink = << >>
               /\ edwards_eq(ret.point, EdwardsPoint_default)
        /\ (a = Scalar_ONE /\ b = Scalar_ZERO) =>
               /\ calls = 1 /\ ret.status = 2 /\ ret.sink = << >>
               /\ edwards_eq(ret.point, A)
        /\ (a = Scalar_ZERO /\ b = Scalar_ONE) =>
               /\ calls = 1 /\ ret.status = 2 /\ ret.sink = << >>
               /\ edwards_eq(ret.point, ED25519_BASEPOINT_POINT)

\* C3 witness: 1 * A + 0 * B for a point A other than the identity and B
C3_Witness ==
    /\ FreshRun /\ a = Scalar_ONE /\ b = Scalar_ZERO
    /\ ~edwards_eq(A, EdwardsPoint_default)
    /\ ~edwards_eq(A, ED25519_BASEPOINT_POINT)
    /\ ret.status = 2

\* C4: an invocation performs at most 30 rounds, and one that ends with
\* Continue has processed exactly 30 digit indices.
C4_AtMostBudgetRounds ==
    FreshRun =>
        /\ ret.rounds <= STEP_BUDGET
        /\ ret.status = 1 => ret.rounds = STEP_BUDGET

\* C5: the sink is called at most once per invocation, exactly once with
\* status 1, not at all with status 2, and only when an index remains.
C5_SinkOncePerCall ==
    calls >= 1 =>
        /\ Len(ret.sink) <= 1
        /\ ret.status = 1 => Len(ret.sink) = 1
        /\ ret.status = 2 => Len(ret.sink) = 0
        /\ ret.outcome = "panic" => Len(ret.sink) = 0
        /\ \A k \in 1 .. Len(ret.sink) :
               /\ ret.last >= 1
               /\ ret.sink[k].i \in 0 .. ret.last - 1

\* C5 witness: an invocation that returned Continue after one sink call
C5_Witness == calls >= 1 /\ ret.status = 1 /\ Len(ret.sink) = 1

\* C7: an invocation with a cursor that is neither 300 nor in [0,255] ends
\* in a MalformedCheckpoint error before any doubling, without a sink call,
\* and returns neither Done nor Continue.
C7_MalformedRejected ==
    (calls >= 1 /\ i_bu \in BadCursors) =>
        /\ ret.outcome = "MalformedCheckpoint"
        /\ ret.doublings = 0
        /\ ret.sink = << >>
        /\ ret.status \notin {1, 2}

\* C8: the array handed to the sink is the X, Y and Z limbs in that order,
\* and deserialize_r_from_backup gives back the accumulator limb for limb.
C8_CodecRoundTrip ==
    \A k \in 1 .. Len(ret.sink) :
        /\ Len(ret.sink[k].arr) = 15
        /\ \A n \in 1 .. 5 :
               /\ ret.sink[k].arr[n] = ret.r.X[n]
               /\ ret.sink[k].arr[5 + n] = ret.r.Y[n]
               /\ ret.sink[k].arr[10 + n] = ret.r.Z[n]
        /\ deserialize_r_from_backup(ret.sink[k].arr) = ret.r
        /\ deserialize_r_from_backup(projective_point_bu) = ret.r

\* C8 witness: a checkpoint whose X, Y and Z limbs differ from one another
C8_Witness ==
    /\ ret.status = 1 /\ Len(ret.sink) = 1
    /\ ret.r.X /= ret.r.Y /\ ret.r.Y /= ret.r.Z /\ ret.r.X /= ret.r.Z
    /\ ret.r.X /= FE_ZERO

\* C9: every cursor handed to the sink in a sequentially resumed run is in
\* [0,255], hence never the not-started cursor 300.
C9_SinkCursorInRange ==
    /\ \A k \in 1 .. Len(ret.sink) :
           /\ ret.sink[k].i \in 0 .. 255
           /\ ret.sink[k].i /= NOT_STARTED
    /\ (FreshRun /\ ret.status = 1) => (i_bu \in 0 .. 255 /\ i_bu /= NOT_STARTED)

\* C9 witness: a checkpoint was written and is the account's cursor
C9_Witness == FreshRun /\ ret.status = 1 /\ ret.sink /= << >> /\ i_bu = ret.sink[1].i

\* C10: an invocation returns Done only if it processed digit index 0; one
\* that stops because its budget ran out never returns Done.
C10_DoneOnlyAtIndex0 ==
    (FreshRun /\ ret.status = 2) => (ret.exit = "index0" /\ ret.last = 0)

\* C11: the indices processed go down by exactly 1 at every step, also
\* across a checkpoint: an invocation processes first, first - 1, ..., last,
\* the cursor handed to the sink is last - 1, and the resuming invocation
\* starts at that cursor.
C11_IndexStep ==
    [][ret'.outcome = "returned" =>
          /\ ret'.first >= ret'.last
          /\ ret'.rounds = ret'.first - ret'.last + 1
          /\ \A k \in 1 .. Len(ret'.sink) : ret'.sink[k].i = ret'.last - 1
          /\ ret.status = 1 => (ret'.first = i_bu /\ ret'.first = ret.last - 1)]_vars

\* C11 witness: a resumed invocation that wrote a checkpoint in its turn
C11_Witness ==
    /\ calls >= 2 /\ ret.outcome = "returned" /\ ret.status = 1
    /\ i_bu = ret.last - 1

\* C12: on a fresh start the first index processed is the highest index with
\* a nonzero a- or b-digit, or 0 when all digits are zero; the accumulator
\* starts as the identity whatever the array holds; with all-zero digits the
\* loop runs once and the invocation returns Done.
C12_FreshStart ==
    (calls = 1 /\ ret.outcome = "returned") =>
        LET a_naf == non_adjacent_form(a, 5)
            b_naf == non_adjacent_form(b, 5)
            all_zero == \A j \in 0 .. 255 : a_naf[j] = 0 /\ b_naf[j] = 0
        IN /\ \A j \in ret.first + 1 .. 255 : a_naf[j] = 0 /\ b_naf[j] = 0
           /\ IF all_zero THEN ret.first = 0
              ELSE a_naf[ret.first] /= 0 \/ b_naf[ret.first] /= 0
           /\ ret.r = mul_rounds([r |-> ProjectivePoint_identity, i |-> ret.first],
                                 ret.rounds, a_naf, b_naf,
                                 NafLookupTable5_from(A),
                                 NafLookupTable5_from(ED25519_BASEPOINT_POINT)).r
           /\ all_zero => (ret.rounds = 1 /\ ret.status = 2 /\ ret.sink = << >>)

\* C12 witness: a fresh start over a stale checkpoint, first index above 0
C12_Witness ==
    /\ calls = 1 /\ ret.outcome = "returned" /\ ret.first > 0
    /\ projective_point_bu
           = projective_point_progress(edwards_as_projective(ED25519_BASEPOINT_POINT))
    /\ ret.status = 2

\* C13: in one loop step at index i a zero a-digit adds no multiple of A and
\* a zero b-digit no multiple of B; with both zero the accumulator after the
\* step is exactly the doubling of the one before; a positive digit d adds
\* and a negative digit subtracts |d| times the base.
C13_ZeroDigitNoOp ==
    ret.outcome = "round" =>
        LET before == deserialize_r_from_backup(projective_point_bu)
            da == non_adjacent_form(a, 5)[i_bu]
            db == non_adjacent_form(b, 5)[i_bu]
            doubled == double(before)
        IN /\ (da = 0 /\ db = 0) => ret.r = as_projective(doubled)
           /\ da = 0 =>
                  edwards_eq(projective_as_extended(ret.r),
                             edwards_add(as_extended(doubled),
                                         signed_multiple(db, ED25519_BASEPOINT_POINT)))
           /\ db = 0 =>
                  edwards_eq(projective_as_extended(ret.r),
                             edwards_add(as_extended(doubled), signed_multiple(da, A)))
           /\ edwards_eq(projective_as_extended(ret.r),
                         edwards_add(edwards_add(as_extended(doubled), signed_multiple(da, A)),
                                     signed_multiple(db, ED25519_BASEPOINT_POINT)))

\* C13 witness: a step with a zero a-digit and a negative b-digit on an
\* accumulator other than the identity
C13_Witness ==
    /\ ret.outcome = "round"
    /\ non_adjacent_form(a, 5)[i_bu] = 0
    /\ non_adjacent_form(b, 5)[i_bu] < 0
    /\ deserialize_r_from_backup(projective_point_bu) /= ProjectivePoint_identity
    /\ ~edwards_eq(A, EdwardsPoint_default)

\* C14: an invocation that calls the sink left its loop through the
\* budget branch with index 0 not yet processed, and an invocation that
\* leaves the loop through the index-0 branch returns Done without a sink call.
C14_CheckpointOnlyOnBudget ==
    FreshRun =>
        /\ ret.sink /= << >> => (ret.exit = "budget" /\ ret.last >= 1 /\ ret.rounds = budget + 1)
        /\ ret.exit = "index0" => (ret.status = 2 /\ ret.sink = << >> /\ ret.last = 0)

\* C14 witness: a checkpoint written after the budget branch
C14_Witness ==
    FreshRun /\ ret.sink /= << >> /\ ret.exit = "budget" /\ ret.last >= 1

\* C15: every checkpoint (cursor c, accumulator r) handed to the sink in a
\* sequentially resumed run is the state of the loop of mul on the same
\* (a, A, b) when it is about to process index c, limb for limb.
C15_CheckpointRefinesMul ==
    (FreshRun /\ ret.status = 1) =>
        /\ ret.sink = << [i |-> i_bu, arr |-> projective_point_bu] >>
        /\ i_bu < find_starting_index(non_adjacent_form(a, 5), non_adjacent_form(b, 5))
        /\ deserialize_r_from_backup(projective_point_bu) = mul_accumulator_at(a, A, b, i_bu)
        /\ ret.r = mul_accumulator_at(a, A, b, i_bu)

\* C15 witness: the checkpoint of a resumed invocation, both scalars nonzero
C15_Witness ==
    /\ FreshRun /\ ret.status = 1 /\ calls >= 3
    /\ a /= Scalar_ZERO /\ b /= Scalar_ZERO
    /\ ~edwards_eq(A, EdwardsPoint_default)
    /\ ret.r /= ProjectivePoint_identity

\* C16: a run started with i_bu = 300 and always resumed with the checkpoint
\* last handed to the sink eventually returns Done, the cursors of successive
\* checkpoints strictly decrease, and at most 9 invocations are made.
C16_Terminates ==
    /\ (calls = 0 /\ i_bu = NOT_STARTED) ~> (ret.status = 2)
    /\ [](FreshRun => calls <= 9)
    /\ [][(ret.status = 1 /\ ret'.status = 1) => i_bu' < i_bu]_vars

\* C16 witness: a run that needed all 9 invocations
C16_Witness == FreshRun /\ calls = 9 /\ ret.status = 2 /\ ret.exit = "index0"

====
